---- MODULE Spec2Model ----
(***************************************************************************)
(* trainHOG: the two trainer wrappers (svmlight.h, libsvm.h) and the main  *)
(* program that writes the features file, trains and synthesizes the       *)
(* single detecting vector.                                                *)
(*                                                                         *)
(* SpecSynth  the trainer wrapper: train / loadModelFromFile,              *)
(*            getSingleDetectingVector, getThreshold.                      *)
(* SpecMain   main(): catalog, features file writer loop, then the calls   *)
(*            to the trainer: read_problem, train, saveModelToFile,         *)
(*            getSingleDetectingVector, saveDescriptorVectorToFile, then   *)
(*            getThreshold, detectTrainingSetTest and the camera loop.     *)
(* SpecMainLive                                                            *)
(*            SpecMain with the camera loop's steps taken when enabled.    *)
(* SpecCatalog, SpecExtract, SpecReader, SpecEvaluate                      *)
(*            one call of getFilesInDirectory, calculateFeaturesFromInput, *)
(*            libSVM::read_problem and detectTrainingSetTest on an input   *)
(*            drawn at Init.                                               *)
(* SpecLifecycle                                                           *)
(*            a libSVM object: read_problem, train, loadModelFromFile,     *)
(*            freeMem and the destructor, with the heap blocks they        *)
(*            allocate and free.                                           *)
(*                                                                         *)
(* Numbers are integers (exact arithmetic); a C array is a function over   *)
(* 0..n-1, a std::vector is a sequence (position p of the vector is        *)
(* element p+1 of the sequence).                                           *)
(***************************************************************************)
EXTENDS Integers, Sequences, FiniteSets, TLC

VARIABLES
    backend,                      \* TRAINHOG_USEDSVM: which wrapper is compiled in
    fitted,                       \* what the solver / the model file delivered (history)
    model,                        \* the wrapper's model struct (MODEL* / svm_model*)
    singleDetectorVector,         \* std::vector<float> filled by getSingleDetectingVector
    singleDetectorVectorIndices,  \* std::vector<unsigned int>, libSVM only
    warnings,                     \* number of "Warning: Component ..." lines printed
    thresholdReads,               \* what getThreshold returned before / after synthesis
    spc,                          \* wrapper life cycle
    program,                      \* which main() is built
    positiveTrainingImages,       \* file names found in posSamplesDir
    negativeTrainingImages,       \* file names found in negSamplesDir
    overallSamples,               \* positiveTrainingImages.size() + negativeTrainingImages.size()
    currentFile,                  \* loop counter of the writer loop
    File,                         \* the features file: exists, is_open, lines written
    extracted,                    \* featureVector of every sample processed so far (history)
    exitStatus,                   \* what main returned (or exit() was given), once it has
    pc,                           \* where main() is
    printed,                      \* diagnostics printed so far (printf / fprintf)
    prob,                         \* libSVM: svm_problem set by read_problem
    stages,                       \* calls made to the trainer and to the file savers (history)
    input,                        \* what the run / the call was given (directories, image, file)
    output,                       \* what the single call returned
    locale,                       \* the process locale (setlocale)
    descriptorFile,               \* the file named descriptorVectorFile: exists, lines
    modelFile,                    \* the file named svmModelFile: exists
    hog,                          \* HOGDescriptor of main: svmDetector set, hitThreshold used
    tallies,                      \* detectTrainingSetTest: its counters and the files it
                                  \* handed to hog.detect, when it returns
    cap,                          \* VideoCapture cap(0)
    window,                       \* the highgui window "HOG custom detection"
    escDelivered,                 \* the ESC key was pressed in the window, not yet read
    trainingDataStructsUsed,      \* libSVM::trainingDataStructsUsed
    pointers,                     \* libSVM: prob.y, prob.x, x_space, line
    heap,                         \* malloc'ed blocks: which buffer, how often freed (history)
    wildFrees,                    \* free() calls on a pointer that was never set (history)
    alive                         \* the libSVM instance has not been destroyed

synthVars == <<fitted, model, singleDetectorVector,
               singleDetectorVectorIndices, warnings, thresholdReads, spc>>

mainVars == <<program, positiveTrainingImages, negativeTrainingImages, overallSamples,
              currentFile, File, extracted, exitStatus, pc>>

pipeVars == <<printed, prob, stages>>

callVars == <<input, output>>

evalVars == <<locale, descriptorFile, modelFile, hog, tallies, cap, window, escDelivered>>

memVars == <<trainingDataStructsUsed, pointers, heap, wildFrees, alive>>

vars == <<backend, synthVars, mainVars, pipeVars, callVars, evalVars, memVars>>

(***************************************************************************)
(* Bounds of the model.                                                    *)
(***************************************************************************)
FeatureLen == 2        \* D: feature length of the training run
MaxSV == 2             \* most support vectors in a fitted model
MaxPos == 2            \* most files in the positive samples directory
MaxNeg == 1            \* most files in the negative samples directory

(***************************************************************************)
(* Program constants.                                                      *)
(***************************************************************************)
SVMLIGHT == 1
LIBSVM == 2
LINEAR == 0
NodeTerminator == -1   \* libsvm: index = -1 ends a svm_node array
WinWidth == 64         \* hog.winSize
WinHeight == 128
StreamPrecision == 6   \* significant digits of operator<<(float)
EXIT_SUCCESS == 0
EXIT_FAILURE == 1

NoValue == <<>>        \* not set yet
Backends == {SVMLIGHT, LIBSVM}
KernelTypes == {LINEAR, LINEAR + 2}    \* linear and RBF
NodeValues == {3}
Coefs == {-1, 2}
Biases == {-1, 1}
MaxIndex == FeatureLen + 1             \* one index beyond D: a mismatched model file

(***************************************************************************)
(* Fitted models: support vectors in sparse form, (index, value) pairs     *)
(* with 1-based strictly increasing indices, each with its signed weight.  *)
(***************************************************************************)
NthIndex(S, i) == CHOOSE x \in S : Cardinality({y \in S : y < x}) = i - 1

Pairs(S, v) ==
    [i \in 1..Cardinality(S) |-> [index |-> NthIndex(S, i), value |-> v[NthIndex(S, i)]]]

SparseVectors(maxIdx) ==
    UNION {{Pairs(S, v) : v \in [S -> NodeValues]} : S \in SUBSET (1..maxIdx)}

SupportVectors(maxIdx) == [coef : Coefs, pairs : SparseVectors(maxIdx)]

SeqsUpTo(S, n) == UNION {[1..k -> S] : k \in 0..n}

FittedModels(maxIdx, kernels) ==
    [kernel_type : kernels, bias : Biases, totwords : {FeatureLen},
     sv : SeqsUpTo(SupportVectors(maxIdx), MaxSV)]

(***************************************************************************)
(* The wrappers' model structs.                                            *)
(* svmlight MODEL: supvec[0] is unused, the support vectors are            *)
(* supvec[1..sv_num-1], alpha[i] is the signed weight, each fvec->words    *)
(* array ends with an entry wnum = 0.                                      *)
(* libsvm svm_model: SV[0..l-1], sv_coef[0][i], each SV array ends with an *)
(* entry index = -1.                                                       *)
(***************************************************************************)
svmlightWords(pairs) ==
    [i \in 1..Len(pairs) |-> [wnum |-> pairs[i].index, weight |-> pairs[i].value]]
        \o <<[wnum |-> 0, weight |-> 0]>>      \* svmlight ends a WORD array with wnum = 0

svmlightModel(f) ==
    [sv_num      |-> Len(f.sv) + 1,
     supvec      |-> [i \in 0..Len(f.sv) |-> IF i = 0 THEN <<>> ELSE svmlightWords(f.sv[i].pairs)],
     alpha       |-> [i \in 0..Len(f.sv) |-> IF i = 0 THEN 0 ELSE f.sv[i].coef],
     totwords    |-> f.totwords,
     b           |-> f.bias,
     kernel_type |-> f.kernel_type]

libsvmNodes(pairs) ==
    [i \in 1..Len(pairs) |-> [index |-> pairs[i].index, value |-> pairs[i].value]]
        \o <<[index |-> NodeTerminator, value |-> 0]>>

libsvmModel(f) ==
    [l           |-> Len(f.sv),
     SV          |-> [i \in 0..(Len(f.sv) - 1) |-> libsvmNodes(f.sv[i + 1].pairs)],
     sv_coef     |-> [i \in 0..(Len(f.sv) - 1) |-> f.sv[i + 1].coef],
     rho         |-> f.bias,
     kernel_type |-> f.kernel_type]

WrapperModel(be, f) == IF be = SVMLIGHT THEN svmlightModel(f) ELSE libsvmModel(f)

(***************************************************************************)
(* SVMlight::getSingleDetectingVector (svmlight.h).                        *)
(* The result of a run: the vector, the indices vector, the warnings       *)
(* printed and whether std::vector::at threw std::out_of_range.            *)
(***************************************************************************)
RECURSIVE svmlightFeatureLoop(_, _, _, _)
svmlightFeatureLoop(m, ssv, singleFeature, acc) ==
    IF acc.thrown \/ singleFeature >= m.totwords THEN acc
    ELSE LET singleSupportVectorComponent == m.supvec[ssv][singleFeature + 1]
             pos == singleSupportVectorComponent.wnum - 1
         IN  IF pos < 0 \/ pos >= Len(acc.vec)
             THEN [acc EXCEPT !.thrown = TRUE]
             ELSE svmlightFeatureLoop(m, ssv, singleFeature + 1,
                      [acc EXCEPT !.vec[pos + 1] =
                           @ + singleSupportVectorComponent.weight * m.alpha[ssv]])

svmlightFirstSV == 1

RECURSIVE svmlightSVLoop(_, _, _)
svmlightSVLoop(m, ssv, acc) ==
    IF acc.thrown \/ ssv >= m.sv_num THEN acc
    ELSE svmlightSVLoop(m, ssv + 1, svmlightFeatureLoop(m, ssv, 0, acc))

svmlightGetSingleDetectingVector(m, idx) ==
    svmlightSVLoop(m, svmlightFirstSV,
        [vec |-> [k \in 1..m.totwords |-> 0], idx |-> idx, warnings |-> 0, thrown |-> FALSE])

(***************************************************************************)
(* libSVM::getSingleDetectingVector (libsvm.h).                            *)
(***************************************************************************)
RECURSIVE libsvmComponentLoop(_, _, _, _)
libsvmComponentLoop(m, ssv, singleVectorComponent, acc) ==
    LET node  == m.SV[ssv][singleVectorComponent + 1]
        alpha == m.sv_coef[ssv]
    IN  IF acc.thrown \/ node.index = NodeTerminator THEN acc
        ELSE IF ssv = 0
        THEN libsvmComponentLoop(m, ssv, singleVectorComponent + 1,
                 [acc EXCEPT !.vec = Append(@, node.value * alpha),
                             !.idx = Append(@, node.index)])
        ELSE IF singleVectorComponent > Len(acc.vec)
        THEN libsvmComponentLoop(m, ssv, singleVectorComponent + 1,
                 [acc EXCEPT !.warnings = @ + 1])
        ELSE IF singleVectorComponent < Len(acc.vec)
        THEN libsvmComponentLoop(m, ssv, singleVectorComponent + 1,
                 [acc EXCEPT !.vec[singleVectorComponent + 1] = @ + node.value * alpha])
        ELSE [acc EXCEPT !.thrown = TRUE]

RECURSIVE libsvmSVLoop(_, _, _)
libsvmSVLoop(m, ssv, acc) ==
    IF acc.thrown \/ ssv >= m.l THEN acc
    ELSE libsvmSVLoop(m, ssv + 1, libsvmComponentLoop(m, ssv, 0, acc))

libsvmGetSingleDetectingVector(m) ==
    libsvmSVLoop(m, 0, [vec |-> <<>>, idx |-> <<>>, warnings |-> 0, thrown |-> FALSE])

getSingleDetectingVector(be, m, idx) ==
    IF be = SVMLIGHT THEN svmlightGetSingleDetectingVector(m, idx)
    ELSE libsvmGetSingleDetectingVector(m)

(***************************************************************************)
(* getThreshold: SVMlight returns model->b, libSVM returns model->rho[0].  *)
(***************************************************************************)
getThreshold(be, m) == IF be = SVMLIGHT THEN m.b ELSE m.rho

(***************************************************************************)
(* The wrapper as a state machine.                                         *)
(***************************************************************************)
MainNotRunning ==
    /\ program = NoValue
    /\ positiveTrainingImages = <<>>
    /\ negativeTrainingImages = <<>>
    /\ overallSamples = 0
    /\ currentFile = 0
    /\ File = [exists |-> FALSE, is_open |-> FALSE, lines |-> <<>>]
    /\ extracted = <<>>
    /\ exitStatus = NoValue
    /\ pc = "idle"
    /\ printed = <<>>
    /\ prob = NoValue
    /\ stages = <<>>

NoCall ==
    /\ input = NoValue
    /\ output = NoValue

\* Nothing of main's later stages has happened; the program starts in the "C"
\* locale.
NoEvaluation ==
    /\ locale = "C"
    /\ descriptorFile = [exists |-> FALSE, lines |-> <<>>]
    /\ modelFile = [exists |-> FALSE]
    /\ hog = [svmDetector |-> <<>>, hitThreshold |-> NoValue]
    /\ tallies = NoValue
    /\ cap = "not constructed"
    /\ window = "none"
    /\ escDelivered = FALSE

\* libSVM(): line = NULL, the flags false; prob.y, prob.x and x_space are not
\* initialized.
libSVMConstructed ==
    /\ trainingDataStructsUsed = FALSE
    /\ pointers = [y |-> [kind |-> "uninitialized", block |-> 0],
                   x |-> [kind |-> "uninitialized", block |-> 0],
                   x_space |-> [kind |-> "uninitialized", block |-> 0],
                   line |-> [kind |-> "NULL", block |-> 0]]
    /\ heap = <<>>
    /\ wildFrees = 0
    /\ alive = TRUE

WrapperConstructed ==
    /\ fitted = NoValue
    /\ model = NoValue
    /\ singleDetectorVector = <<>>
    /\ singleDetectorVectorIndices = <<>>
    /\ warnings = 0
    /\ thresholdReads = [before |-> <<>>, after |-> <<>>]
    /\ spc = "constructed"

InitSynth ==
    /\ backend \in Backends
    /\ MainNotRunning
    /\ WrapperConstructed
    /\ NoEvaluation
    /\ libSVMConstructed
    /\ NoCall

\* train(): the solver fits the problem read before; the kernel is the one the
\* constructor configured (LINEAR), the dataset may be sparse.
Train ==
    /\ spc = "constructed"
    /\ \E f \in FittedModels(FeatureLen, {LINEAR}) :
          /\ fitted' = f
          /\ model' = WrapperModel(backend, f)
    /\ spc' = "fitted"
    /\ UNCHANGED <<backend, singleDetectorVector, singleDetectorVectorIndices,
                   warnings, thresholdReads, mainVars, pipeVars, callVars,
                   evalVars, memVars>>

\* loadModelFromFile(): the model is whatever the file holds.
LoadModelFromFile ==
    /\ spc = "constructed"
    /\ \E f \in FittedModels(MaxIndex, KernelTypes) :
          /\ fitted' = f
          /\ model' = WrapperModel(backend, f)
    /\ spc' = "fitted"
    /\ UNCHANGED <<backend, singleDetectorVector, singleDetectorVectorIndices,
                   warnings, thresholdReads, mainVars, pipeVars, callVars,
                   evalVars, memVars>>

\* Mutant: a synthesis that folds the bias away and clears it in the model.
GetSingleDetectingVectorClearingBias ==
    /\ spc = "fitted"
    /\ LET r == getSingleDetectingVector(backend, model, singleDetectorVectorIndices)
       IN  /\ singleDetectorVector' = r.vec
           /\ singleDetectorVectorIndices' = r.idx
           /\ warnings' = r.warnings
           /\ spc' = IF r.thrown THEN "aborted" ELSE "synthesized"
    /\ model' = WrapperModel(backend, [fitted EXCEPT !.bias = 0])
    /\ UNCHANGED <<backend, fitted, thresholdReads, mainVars, pipeVars, callVars,
                   evalVars, memVars>>

GetSingleDetectingVector ==
    /\ spc = "fitted"
    /\ LET r == getSingleDetectingVector(backend, model, singleDetectorVectorIndices)
       IN  /\ singleDetectorVector' = r.vec
           /\ singleDetectorVectorIndices' = r.idx
           /\ warnings' = r.warnings
           /\ spc' = IF r.thrown THEN "aborted" ELSE "synthesized"
    /\ UNCHANGED <<backend, fitted, model, thresholdReads, mainVars, pipeVars, callVars,
                   evalVars, memVars>>

\* getThreshold(), called before or after the synthesis (once each here).
GetThreshold ==
    /\ spc \in {"fitted", "synthesized"}
    /\ LET when == IF spc = "fitted" THEN "before" ELSE "after"
       IN  /\ thresholdReads[when] = <<>>
           /\ thresholdReads' = [thresholdReads EXCEPT ![when] = <<getThreshold(backend, model)>>]
    /\ UNCHANGED <<backend, fitted, model, singleDetectorVector,
                   singleDetectorVectorIndices, warnings, spc, mainVars, pipeVars, callVars,
                   evalVars, memVars>>

NextSynth ==
    \/ Train
    \/ LoadModelFromFile
    \/ GetSingleDetectingVector
    \/ GetThreshold

SpecSynth == InitSynth /\ [][NextSynth]_vars

(***************************************************************************)
(* Text.  A std::string / char* is the sequence of its characters.         *)
(***************************************************************************)
UpperCase == <<"A", "B", "C", "D", "E", "F", "G", "H", "I", "J", "K", "L", "M",
               "N", "O", "P", "Q", "R", "S", "T", "U", "V", "W", "X", "Y", "Z">>
LowerCase == <<"a", "b", "c", "d", "e", "f", "g", "h", "i", "j", "k", "l", "m",
               "n", "o", "p", "q", "r", "s", "t", "u", "v", "w", "x", "y", "z">>
DigitChars == <<"0", "1", "2", "3", "4", "5", "6", "7", "8", "9">>

Range(seq) == {seq[i] : i \in 1..Len(seq)}

tolower(c) ==
    IF \E i \in 1..Len(UpperCase) : UpperCase[i] = c
    THEN LowerCase[CHOOSE i \in 1..Len(UpperCase) : UpperCase[i] = c]
    ELSE c

toLowerCase(in) == [i \in 1..Len(in) |-> tolower(in[i])]

\* std::string::npos is the all-ones size_t: npos + 1 wraps around to 0.
npos == 0 - 1

\* 0-based position of the last occurrence of c, or npos.
find_last_of(str, c) ==
    LET hits == {i \in 1..Len(str) : str[i] = c}
    IN  IF hits = {} THEN npos ELSE (CHOOSE i \in hits : \A j \in hits : j <= i) - 1

substr(str, pos) == SubSeq(str, pos + 1, Len(str))

(***************************************************************************)
(* getFilesInDirectory (main.cpp and part_000 are the same text).          *)
(* A directory is what opendir / readdir deliver: whether it opens, and    *)
(* its entries (d_name, d_type) in readdir order.                          *)
(***************************************************************************)
posSamplesDir == <<"p", "o", "s", "/">>
negSamplesDir == <<"n", "e", "g", "/">>

jpg == <<"j", "p", "g">>
png == <<"p", "n", "g">>
ppm == <<"p", "p", "m">>
validExtensions == <<jpg, png, ppm>>

NoDirectory == [opens |-> FALSE, entries |-> <<>>]

RECURSIVE readdirLoop(_, _, _, _, _)
readdirLoop(dirName, entries, n, acc, extensions) ==
    IF n > Len(entries) THEN acc
    ELSE LET ep == entries[n]
         IN  IF ep.d_type = "DT_DIR"
             THEN readdirLoop(dirName, entries, n + 1, acc, extensions)
             ELSE LET extensionLocation == find_last_of(ep.d_name, ".")
                      tempExt == toLowerCase(substr(ep.d_name, extensionLocation + 1))
                  IN  IF tempExt \in Range(extensions)
                      THEN readdirLoop(dirName, entries, n + 1,
                               [fileNames |-> Append(acc.fileNames, dirName \o ep.d_name),
                                printed   |-> Append(acc.printed,
                                                  <<"Found matching data file", ep.d_name>>)],
                               extensions)
                      ELSE readdirLoop(dirName, entries, n + 1,
                               [acc EXCEPT !.printed =
                                    Append(@, <<"Found file does not match required file type, skipping",
                                                ep.d_name>>)],
                               extensions)

\* Mutant: a directory that does not open goes unreported.
getFilesInDirectoryUnreported(dirName, dp, fileNames, extensions) ==
    LET opening == [fileNames |-> fileNames, printed |-> <<<<"Opening directory", dirName>>>>]
    IN  IF dp.opens
        THEN readdirLoop(dirName, dp.entries, 1, opening, extensions)
        ELSE opening

getFilesInDirectory(dirName, dp, fileNames, extensions) ==
    LET opening == [fileNames |-> fileNames, printed |-> <<<<"Opening directory", dirName>>>>]
    IN  IF dp.opens
        THEN readdirLoop(dirName, dp.entries, 1, opening, extensions)
        ELSE [opening EXCEPT !.printed = Append(@, <<"Error opening directory", dirName>>)]

(***************************************************************************)
(* One call of getFilesInDirectory on a directory drawn at Init.           *)
(***************************************************************************)
MaxEntries == 4        \* most entries in the directory of the single call

DirEntries ==
    <<[d_name |-> <<"a", ".", "J", "P", "G">>, d_type |-> "DT_REG"],
      [d_name |-> <<"b", ".", "p", "n", "g">>, d_type |-> "DT_REG"],
      [d_name |-> <<"c", ".", "t", "x", "t">>, d_type |-> "DT_REG"],
      [d_name |-> <<"d">>, d_type |-> "DT_REG"],
      [d_name |-> <<"j", "p", "g">>, d_type |-> "DT_REG"],
      [d_name |-> <<".", "j", "p", "g">>, d_type |-> "DT_REG"],
      [d_name |-> <<".", "h", "i", "d", "d", "e", "n", ".", "p", "n", "g">>, d_type |-> "DT_REG"],
      [d_name |-> <<".">>, d_type |-> "DT_DIR"],
      [d_name |-> <<"s", "u", "b">>, d_type |-> "DT_DIR"],
      [d_name |-> <<"x", ".", "j", "p", "g">>, d_type |-> "DT_DIR"]>>

Listing(S) == [i \in 1..Cardinality(S) |-> DirEntries[NthIndex(S, i)]]

Directories ==
    {NoDirectory} \cup
    {[opens |-> TRUE, entries |-> Listing(S)] :
        S \in {T \in SUBSET (1..Len(DirEntries)) : Cardinality(T) <= MaxEntries}}

InitCatalog ==
    /\ backend \in Backends
    /\ MainNotRunning
    /\ WrapperConstructed
    /\ NoEvaluation
    /\ libSVMConstructed
    /\ input \in [dirName : {posSamplesDir}, dp : Directories,
                  fileNames : {<<>>, <<negSamplesDir \o <<"0", ".", "p", "p", "m">>>>},
                  extensions : {<<jpg, png>>, validExtensions}]
    /\ output = NoValue

GetFilesInDirectory ==
    /\ input # NoValue
    /\ output = NoValue
    /\ output' = getFilesInDirectory(input.dirName, input.dp, input.fileNames, input.extensions)
    /\ UNCHANGED <<backend, synthVars, mainVars, pipeVars, input,
                   evalVars, memVars>>

NextCatalog == GetFilesInDirectory

SpecCatalog == InitCatalog /\ [][NextCatalog]_vars

(***************************************************************************)
(* main(): the two builds of the program.  MAIN_CPP always uses SVMlight   *)
(* and always writes the comment line; PART_000 selects the wrapper with   *)
(* TRAINHOG_USEDSVM and writes the comment line for SVMlight only.         *)
(***************************************************************************)
MAIN_CPP == "src/main.cpp"
PART_000 == "src/unnamed/part_000"
Programs == {MAIN_CPP, PART_000}

featuresFile == "genfiles/features.dat"
svmModelFile == "genfiles/svmlightmodel.dat"
descriptorVectorFile == "genfiles/descriptorvector.dat"

\* The locale of the host, with a decimal comma; a library linked in may have
\* selected it before main runs.
HostLocale == "host"
CommentText ==
    "# Use this file to train, e.g. SVMlight by issuing $ svm_learn -i 1 -a weights.txt "
endl == "\n"

\* Feature values in units of 10^-7: 0 and 0.1234567.
FeatureValues == {0, 1234567}

(***************************************************************************)
(* Images as imread delivers them: empty when the file does not decode,    *)
(* else cols x rows; descriptor is what hog.compute returns for the image  *)
(* (D values for an image of the window size).                             *)
(***************************************************************************)
Images ==
    {[empty |-> TRUE, cols |-> 0, rows |-> 0, descriptor |-> <<>>]}
    \cup {[empty |-> FALSE, cols |-> WinWidth * 2, rows |-> WinHeight,
           descriptor |-> [i \in 1..(FeatureLen * 2) |-> 0]],
          [empty |-> FALSE, cols |-> WinWidth, rows |-> WinHeight \div 2,
           descriptor |-> <<>>]}
    \cup {[empty |-> FALSE, cols |-> WinWidth, rows |-> WinHeight, descriptor |-> d] :
              d \in [1..FeatureLen -> FeatureValues]}

hogCompute(imageData) == imageData.descriptor

\* Mutant: the vector is not cleared when the image is rejected.
calculateFeaturesFromInputNotCleared(imageData, featureVector) ==
    IF imageData.empty THEN featureVector
    ELSE IF imageData.cols # WinWidth \/ imageData.rows # WinHeight THEN featureVector
    ELSE hogCompute(imageData)

calculateFeaturesFromInput(imageData, featureVector) ==
    IF imageData.empty THEN <<>>
    ELSE IF imageData.cols # WinWidth \/ imageData.rows # WinHeight THEN <<>>
    ELSE hogCompute(imageData)

(***************************************************************************)
(* operator<<(float): the value rounded to StreamPrecision significant     *)
(* digits, as text.                                                        *)
(***************************************************************************)
RECURSIVE DecimalDigits(_)
DecimalDigits(n) == IF n < 10 THEN 1 ELSE 1 + DecimalDigits(n \div 10)

RECURSIVE Pow10(_)
Pow10(e) == IF e = 0 THEN 1 ELSE 10 * Pow10(e - 1)

RoundSignificant(v) ==
    IF DecimalDigits(v) <= StreamPrecision THEN v
    ELSE LET scale == Pow10(DecimalDigits(v) - StreamPrecision)
         IN  ((v + scale \div 2) \div scale) * scale

FormatFloat(v) == ToString(RoundSignificant(v))

(***************************************************************************)
(* The writer loop's body: one line per sample with a non-empty vector,    *)
(* as the pieces streamed into File.                                       *)
(***************************************************************************)
\* Mutant: the class test off by one.
labelTokenOffByOne(cur, positives) ==
    IF cur <= Len(positives) THEN "+1" ELSE "-1"

labelToken(cur, positives) ==
    IF cur < Len(positives) THEN "+1" ELSE "-1"

\* Mutant: 0-based feature indices.
RECURSIVE writeFeaturesZeroBased(_, _)
writeFeaturesZeroBased(featureVector, feature) ==
    IF feature < Len(featureVector)
    THEN <<" ", ToString(feature), ":", FormatFloat(featureVector[feature + 1])>>
             \o writeFeaturesZeroBased(featureVector, feature + 1)
    ELSE <<>>

RECURSIVE writeFeatures(_, _)
writeFeatures(featureVector, feature) ==
    IF feature < Len(featureVector)
    THEN <<" ", ToString(feature + 1), ":", FormatFloat(featureVector[feature + 1])>>
             \o writeFeatures(featureVector, feature + 1)
    ELSE <<>>

\* Mutant: the line is written whether or not the vector is empty.
writeSampleAlways(lines, cur, positives, featureVector) ==
    Append(lines, <<labelToken(cur, positives)>>
                      \o writeFeatures(featureVector, 0) \o <<endl>>)

\* Mutant: the line is put in front of the lines written so far.
writeSamplePrepending(lines, cur, positives, featureVector) ==
    IF featureVector # <<>>
    THEN <<<<labelToken(cur, positives)>> \o writeFeatures(featureVector, 0) \o <<endl>>>>
             \o lines
    ELSE lines

writeSample(lines, cur, positives, featureVector) ==
    IF featureVector # <<>>
    THEN Append(lines, <<labelToken(cur, positives)>>
                           \o writeFeatures(featureVector, 0) \o <<endl>>)
    ELSE lines

writesComment(prog, be) == prog = MAIN_CPP \/ be = SVMLIGHT

(***************************************************************************)
(* The features file as bytes.  The writer streams pieces into File; the   *)
(* reader sees their characters.                                           *)
(***************************************************************************)
RECURSIVE DecimalChars(_)
DecimalChars(n) ==
    IF n < 10 THEN <<DigitChars[n + 1]>>
    ELSE Append(DecimalChars(n \div 10), DigitChars[(n % 10) + 1])

CommentChars ==
    <<"#", " ", "U", "s", "e", " ", "t", "h", "i", "s", " ", "f", "i", "l",
      "e", " ", "t", "o", " ", "t", "r", "a", "i", "n", ",", " ", "e", ".",
      "g", ".", " ", "S", "V", "M", "l", "i", "g", "h", "t", " ", "b", "y",
      " ", "i", "s", "s", "u", "i", "n", "g", " ", "$", " ", "s", "v", "m",
      "_", "l", "e", "a", "r", "n", " ", "-", "i", " ", "1", " ", "-", "a",
      " ", "w", "e", "i", "g", "h", "t", "s", ".", "t", "x", "t", " ">>

featuresFileChars ==
    <<"g", "e", "n", "f", "i", "l", "e", "s", "/", "f", "e", "a", "t", "u",
      "r", "e", "s", ".", "d", "a", "t">>

\* The numbers the writer streams: feature indices and rounded feature values.
StreamedNumbers == (0..MaxIndex) \cup {RoundSignificant(v) : v \in FeatureValues}

Chars(piece) ==
    CASE piece = " " -> <<" ">>
      [] piece = ":" -> <<":">>
      [] piece = endl -> <<"\n">>
      [] piece = "+1" -> <<"+", "1">>
      [] piece = "-1" -> <<"-", "1">>
      [] piece = CommentText -> CommentChars
      [] piece = featuresFile -> featuresFileChars
      [] OTHER -> DecimalChars(CHOOSE n \in StreamedNumbers : ToString(n) = piece)

RECURSIVE Bytes(_)
Bytes(pieces) == IF pieces = <<>> THEN <<>> ELSE Chars(Head(pieces)) \o Bytes(Tail(pieces))

FileText(lines) == [i \in 1..Len(lines) |-> Bytes(lines[i])]

(***************************************************************************)
(* libSVM::read_problem (libsvm.h) and the C library calls it makes.       *)
(* strtok keeps the position where the scan resumes: `from`, `next`.       *)
(* strtol / strtod return the value and endptr as the number of characters *)
(* consumed (0: no conversion, endptr == nptr).  Feature values are fixed  *)
(* point digit strings here, so strtod reads what strtol reads; range      *)
(* errors (errno) do not arise for the numbers of the model.               *)
(***************************************************************************)
Whitespace == {" ", "\t", "\n", "\r"}

Least(S) == CHOOSE x \in S : \A y \in S : x <= y

strtok(str, from, delims) ==
    LET starts == {i \in from..Len(str) : str[i] \notin delims}
    IN  IF starts = {}
        THEN [null |-> TRUE, token |-> <<>>, next |-> Len(str) + 1]
        ELSE LET b    == Least(starts)
                 ends == {i \in b..Len(str) : str[i] \in delims}
                 e    == IF ends = {} THEN Len(str) + 1 ELSE Least(ends)
             IN  [null  |-> FALSE,
                  token |-> SubSeq(str, b, e - 1),
                  next  |-> IF ends = {} THEN Len(str) + 1 ELSE e + 1]

RECURSIVE DecimalValue(_)
DecimalValue(digits) ==
    IF digits = <<>> THEN 0
    ELSE 10 * DecimalValue(SubSeq(digits, 1, Len(digits) - 1))
           + ((CHOOSE d \in 1..10 : DigitChars[d] = digits[Len(digits)]) - 1)

\* Mutant: the sign of the number is dropped.
strtolUnsigned(nptr) ==
    LET spaces == {i \in 0..Len(nptr) : \A j \in 1..i : nptr[j] \in Whitespace}
        ws     == CHOOSE i \in spaces : \A j \in spaces : j <= i
        signed == ws < Len(nptr) /\ nptr[ws + 1] \in {"+", "-"}
        first  == IF signed THEN ws + 2 ELSE ws + 1
        runs   == {i \in (first - 1)..Len(nptr) : \A j \in first..i : nptr[j] \in Range(DigitChars)}
        last   == CHOOSE i \in runs : \A j \in runs : j <= i
    IN  IF last < first THEN [value |-> 0, endptr |-> 0]
        ELSE [value  |-> DecimalValue(SubSeq(nptr, first, last)),
              endptr |-> last]

strtol(nptr) ==
    LET spaces == {i \in 0..Len(nptr) : \A j \in 1..i : nptr[j] \in Whitespace}
        ws     == CHOOSE i \in spaces : \A j \in spaces : j <= i
        signed == ws < Len(nptr) /\ nptr[ws + 1] \in {"+", "-"}
        first  == IF signed THEN ws + 2 ELSE ws + 1
        runs   == {i \in (first - 1)..Len(nptr) : \A j \in first..i : nptr[j] \in Range(DigitChars)}
        last   == CHOOSE i \in runs : \A j \in runs : j <= i
    IN  IF last < first THEN [value |-> 0, endptr |-> 0]
        ELSE [value  |-> (IF signed /\ nptr[ws + 1] = "-" THEN 0 - 1 ELSE 1)
                             * DecimalValue(SubSeq(nptr, first, last)),
              endptr |-> last]

strtod(nptr) == strtol(nptr)

\* The while (1) loop over the features of one line.
RECURSIVE readFeatures(_, _, _, _)
readFeatures(line, from, inst_max_index, nodes) ==
    LET idx == strtok(line, from, {":"})
        val == strtok(line, idx.next, {" ", "\t"})
    IN  IF val.null THEN [error |-> <<>>, nodes |-> nodes]
        ELSE LET index == strtol(idx.token)
             IN  IF \/ index.endptr = 0
                    \/ index.endptr # Len(idx.token)
                    \/ index.value <= inst_max_index
                 THEN [error |-> <<"File input error at feature index encountered">>,
                       nodes |-> nodes]
                 ELSE LET value == strtod(val.token)
                      IN  IF \/ value.endptr = 0
                             \/ /\ value.endptr # Len(val.token)
                                /\ val.token[value.endptr + 1] \notin Whitespace
                          THEN [error |-> <<"File input error at feature value encountered">>,
                                nodes |-> nodes]
                          ELSE readFeatures(line, val.next, index.value,
                                   Append(nodes, [index |-> index.value, value |-> value.value]))

\* One iteration of the for loop: the label, then the features.
readLine(line) ==
    LET label == strtok(line, 1, {" ", "\t", "\n"})
    IN  IF label.null THEN [error |-> <<"Empty line encountered!">>, y |-> 0, x |-> <<>>]
        ELSE LET y == strtod(label.token)
             IN  IF y.endptr = 0 \/ y.endptr # Len(label.token)
                 THEN [error |-> <<"Wrong line ending encountered!">>, y |-> 0, x |-> <<>>]
                 ELSE LET features == readFeatures(line, label.next, NodeTerminator, <<>>)
                      IN  [error |-> features.error,
                           y     |-> y.value,
                           x     |-> Append(features.nodes,
                                            [index |-> NodeTerminator, value |-> 0])]

exit_input_error(line_num) == <<"Wrong input format at line", line_num>>

RECURSIVE readLines(_, _, _)
readLines(text, i, acc) ==
    IF acc.exited \/ i >= acc.prob.l THEN acc
    ELSE LET r == readLine(text[i + 1])
         IN  IF r.error # <<>>
             THEN [acc EXCEPT !.exited = TRUE,
                              !.line_num = i + 1,
                              !.printed = @ \o <<r.error, exit_input_error(i + 1)>>]
             ELSE readLines(text, i + 1,
                      [acc EXCEPT !.prob.y = Append(@, r.y),
                                  !.prob.x = Append(@, r.x)])

NoFile == [exists |-> FALSE, text |-> <<>>]

\* fopen, the counting pass (prob.l = number of lines), the parsing pass.
read_problem(file) ==
    IF ~file.exists
    THEN [exited |-> TRUE, line_num |-> 0, printed |-> <<<<"can't open input file">>>>,
          prob |-> [l |-> 0, y |-> <<>>, x |-> <<>>]]
    ELSE readLines(file.text, 0,
             [exited |-> FALSE, line_num |-> 0, printed |-> <<>>,
              prob |-> [l |-> Len(file.text), y |-> <<>>, x |-> <<>>]])

(***************************************************************************)
(* One call of read_problem on a file drawn at Init.  Each line of the     *)
(* pool comes with what it is: an example (label, pairs), a comment, or    *)
(* the way it is malformed.                                                *)
(***************************************************************************)
MaxLines == 2          \* most lines in the file of the single call

LinePool ==
    {[text |-> <<"+", "1", " ", "1", ":", "5", " ", "2", ":", "7", "\n">>, kind |-> "example",
      y |-> 1, pairs |-> <<[index |-> 1, value |-> 5], [index |-> 2, value |-> 7]>>],
     [text |-> <<"-", "1", " ", "2", ":", "5", "\n">>, kind |-> "example",
      y |-> 0 - 1, pairs |-> <<[index |-> 2, value |-> 5]>>],
     [text |-> CommentChars \o featuresFileChars \o <<"\n">>, kind |-> "comment",
      y |-> 0, pairs |-> <<>>],
     [text |-> <<"\n">>, kind |-> "missing label", y |-> 0, pairs |-> <<>>],
     [text |-> <<"1", ":", "5", " ", "2", ":", "7", "\n">>, kind |-> "missing label",
      y |-> 0, pairs |-> <<>>],
     [text |-> <<"+", "x", " ", "1", ":", "5", "\n">>, kind |-> "malformed label",
      y |-> 0, pairs |-> <<>>],
     [text |-> <<"+", "1", " ", "x", ":", "5", "\n">>, kind |-> "malformed index",
      y |-> 0, pairs |-> <<>>],
     [text |-> <<"+", "1", " ", "1", ":", "5", "x", "\n">>, kind |-> "malformed value",
      y |-> 0, pairs |-> <<>>],
     [text |-> <<"+", "1", " ", "1", ":", "5", " ", "2", "\n">>, kind |-> "malformed token",
      y |-> 0, pairs |-> <<>>],
     [text |-> <<"+", "1", " ", "2", ":", "5", " ", "1", ":", "7", "\n">>,
      kind |-> "index not increasing", y |-> 0, pairs |-> <<>>],
     [text |-> <<"+", "1", " ", "1", ":", "5", " ", "1", ":", "7", "\n">>,
      kind |-> "index not increasing", y |-> 0, pairs |-> <<>>]}

DatasetFiles == SeqsUpTo(LinePool, MaxLines)

InitReader ==
    /\ backend = LIBSVM
    /\ MainNotRunning
    /\ WrapperConstructed
    /\ NoEvaluation
    /\ libSVMConstructed
    /\ input \in DatasetFiles
    /\ output = NoValue

ReadProblemFile ==
    /\ output = NoValue
    /\ output' = read_problem([exists |-> TRUE,
                               text |-> [i \in 1..Len(input) |-> input[i].text]])
    /\ UNCHANGED <<backend, synthVars, mainVars, pipeVars, input,
                   evalVars, memVars>>

NextReader == ReadProblemFile

SpecReader == InitReader /\ [][NextReader]_vars

\* What calculateFeaturesFromInput prints for the image.
calculateFeaturesFromInputPrints(imageFilename, imageData) ==
    IF imageData.empty
    THEN <<<<"Error: HOG image is empty, features calculation skipped!", imageFilename>>>>
    ELSE IF imageData.cols # WinWidth \/ imageData.rows # WinHeight
    THEN <<<<"Error: Image dimensions do not match HOG window size!", imageFilename,
             imageData.cols, imageData.rows, WinWidth, WinHeight>>>>
    ELSE <<>>

\* The sample directories of a run: not there, or k image files.
SampleDirectories(n) ==
    {NoDirectory} \cup
    {[opens |-> TRUE,
      entries |-> [i \in 1..k |-> [d_name |-> <<DigitChars[i + 1], ".", "p", "n", "g">>,
                                   d_type |-> "DT_REG"]]] : k \in 0..n}

(***************************************************************************)
(* saveDescriptorVectorToFile: the components in order, each followed by   *)
(* the separator, then endl.  Nothing happens when the file does not open. *)
(***************************************************************************)
separator == " "

\* operator<<(float) for a value of either sign.
StreamFloat(v) == IF v < 0 THEN "-" \o FormatFloat(0 - v) ELSE FormatFloat(v)

\* Mutant: the separator goes between the components only.
RECURSIVE saveFeaturesJoined(_, _)
saveFeaturesJoined(descriptorVector, feature) ==
    IF feature < Len(descriptorVector)
    THEN (IF feature > 0 THEN <<separator>> ELSE <<>>)
             \o <<StreamFloat(descriptorVector[feature + 1])>>
             \o saveFeaturesJoined(descriptorVector, feature + 1)
    ELSE <<>>

RECURSIVE saveFeatures(_, _)
saveFeatures(descriptorVector, feature) ==
    IF feature < Len(descriptorVector)
    THEN <<StreamFloat(descriptorVector[feature + 1]), separator>>
             \o saveFeatures(descriptorVector, feature + 1)
    ELSE <<>>

saveDescriptorVectorToFile(descriptorVector, file, opens) ==
    IF opens
    THEN [exists |-> TRUE, lines |-> <<saveFeatures(descriptorVector, 0) \o <<endl>>>>]
    ELSE file

(***************************************************************************)
(* detectTrainingSetTest.  found[f] is foundDetection.size() after         *)
(* hog.detect on file f; detected lists the files handed to hog.detect,    *)
(* each with that size.                                                    *)
(***************************************************************************)
MaxHits == 2           \* most detections hog.detect reports on one image

NoTallies ==
    [truePositives |-> 0, trueNegatives |-> 0, falsePositives |-> 0, falseNegatives |-> 0,
     detected |-> <<>>]

\* Mutant: every hit on a positive image counts as a true positive.
RECURSIVE detectPositivesPerHit(_, _, _, _)
detectPositivesPerHit(posFileNames, found, i, t) ==
    IF i > Len(posFileNames) THEN t
    ELSE LET size == found[posFileNames[i]]
             seen == [t EXCEPT !.detected = Append(@, <<posFileNames[i], size>>)]
         IN  detectPositivesPerHit(posFileNames, found, i + 1,
                 IF size > 0
                 THEN [seen EXCEPT !.truePositives = @ + size]
                 ELSE [seen EXCEPT !.falseNegatives = @ + 1])

RECURSIVE detectPositives(_, _, _, _)
detectPositives(posFileNames, found, i, t) ==
    IF i > Len(posFileNames) THEN t
    ELSE LET size == found[posFileNames[i]]
             seen == [t EXCEPT !.detected = Append(@, <<posFileNames[i], size>>)]
         IN  detectPositives(posFileNames, found, i + 1,
                 IF size > 0
                 THEN [seen EXCEPT !.truePositives = @ + 1,
                                   !.falseNegatives = @ + size - 1]
                 ELSE [seen EXCEPT !.falseNegatives = @ + 1])

\* Mutant: a negative image with hits counts as one false positive.
RECURSIVE detectNegativesPerImage(_, _, _, _)
detectNegativesPerImage(negFileNames, found, i, t) ==
    IF i > Len(negFileNames) THEN t
    ELSE LET size == found[negFileNames[i]]
             seen == [t EXCEPT !.detected = Append(@, <<negFileNames[i], size>>)]
         IN  detectNegativesPerImage(negFileNames, found, i + 1,
                 IF size > 0
                 THEN [seen EXCEPT !.falsePositives = @ + 1]
                 ELSE [seen EXCEPT !.trueNegatives = @ + 1])

RECURSIVE detectNegatives(_, _, _, _)
detectNegatives(negFileNames, found, i, t) ==
    IF i > Len(negFileNames) THEN t
    ELSE LET size == found[negFileNames[i]]
             seen == [t EXCEPT !.detected = Append(@, <<negFileNames[i], size>>)]
         IN  detectNegatives(negFileNames, found, i + 1,
                 IF size > 0
                 THEN [seen EXCEPT !.falsePositives = @ + size]
                 ELSE [seen EXCEPT !.trueNegatives = @ + 1])

detectTrainingSetTest(posFileNames, negFileNames, found) ==
    detectNegatives(negFileNames, found, 1,
                    detectPositives(posFileNames, found, 1, NoTallies))

\* What hog.detect may report on the files of the two lists.
Detections(posFileNames, negFileNames) ==
    [Range(posFileNames) \cup Range(negFileNames) -> 0..MaxHits]

\* The model the solver returns for the dataset written by main (the same
\* dataset gives the same model): the support vectors are examples of the
\* dataset, each with all D features as written, weighted by the side they are
\* on; the bias is the one or the other of Biases with the classes present.
TrainedModels(positives, vectors) ==
    LET examples == SelectSeq([n \in 1..Len(vectors) |->
                                  [coef  |-> IF n <= Len(positives) THEN 2 ELSE 0 - 1,
                                   pairs |-> [i \in 1..Len(vectors[n]) |->
                                                [index |-> i,
                                                 value |-> RoundSignificant(vectors[n][i])]]]],
                              LAMBDA sv : sv.pairs # <<>>)
        bias == IF \E n \in 1..Len(examples) : examples[n].coef > 0 THEN 1 ELSE 0 - 1
    IN  {[kernel_type |-> LINEAR, bias |-> bias, totwords |-> FeatureLen, sv |-> examples]}

\* What hog.detect may report in a run of main: it is a function of the image,
\* and images with the same features get the same detections.  A sample that
\* gave a feature vector has the size of the window, and with winStride (8, 8)
\* and trainingPadding (0, 0) it holds one window position: at most one hit.
MainDetections(posFileNames, negFileNames, vectors) ==
    LET files == posFileNames \o negFileNames
        windows(featureVector) == IF featureVector = <<>> THEN MaxHits ELSE 1
        hits == {sizes \in [Range(vectors) -> 0..MaxHits] :
                    \A v \in Range(vectors) : sizes[v] <= windows(v)}
    IN  {[f \in Range(files) |->
             sizes[vectors[CHOOSE n \in 1..Len(files) : files[n] = f]]] : sizes \in hits}

InitMain ==
    /\ program \in Programs
    /\ backend \in (IF program = MAIN_CPP THEN {SVMLIGHT} ELSE Backends)
    /\ WrapperConstructed
    /\ NoCall
    /\ positiveTrainingImages = <<>>
    /\ negativeTrainingImages = <<>>
    /\ overallSamples = 0
    /\ currentFile = 0
    /\ File = [exists |-> FALSE, is_open |-> FALSE, lines |-> <<>>]
    /\ extracted = <<>>
    /\ exitStatus = NoValue
    /\ printed = <<>>
    /\ prob = NoValue
    /\ stages = <<>>
    /\ pc = "start"
    /\ locale \in {"C", HostLocale}
    /\ descriptorFile = [exists |-> FALSE, lines |-> <<>>]
    /\ modelFile = [exists |-> FALSE]
    /\ hog = [svmDetector |-> <<>>, hitThreshold |-> NoValue]
    /\ tallies = NoValue
    /\ cap = "not constructed"
    /\ window = "none"
    /\ escDelivered = FALSE
    /\ libSVMConstructed

\* Mutant: no zero-sample check, the run goes on to the features file.
ReadImageFilesNoZeroCheck ==
    /\ pc = "start"
    /\ \E dp \in SampleDirectories(MaxPos), dn \in SampleDirectories(MaxNeg) :
          LET pos == getFilesInDirectory(posSamplesDir, dp, positiveTrainingImages,
                                         validExtensions)
              neg == getFilesInDirectory(negSamplesDir, dn, negativeTrainingImages,
                                         validExtensions)
          IN  /\ input' = [pos |-> dp, neg |-> dn]
              /\ positiveTrainingImages' = pos.fileNames
              /\ negativeTrainingImages' = neg.fileNames
              /\ overallSamples' = Len(pos.fileNames) + Len(neg.fileNames)
              /\ printed' = printed \o pos.printed \o neg.printed
              /\ pc' = "open"
              /\ UNCHANGED exitStatus
    /\ UNCHANGED <<backend, synthVars, program, currentFile, File, extracted, prob, stages,
                   output,
                   evalVars, memVars>>

\* getFilesInDirectory for both directories, then the zero-sample check.
ReadImageFiles ==
    /\ pc = "start"
    /\ \E dp \in SampleDirectories(MaxPos), dn \in SampleDirectories(MaxNeg) :
          LET pos == getFilesInDirectory(posSamplesDir, dp, positiveTrainingImages,
                                         validExtensions)
              neg == getFilesInDirectory(negSamplesDir, dn, negativeTrainingImages,
                                         validExtensions)
          IN  /\ input' = [pos |-> dp, neg |-> dn]
              /\ positiveTrainingImages' = pos.fileNames
              /\ negativeTrainingImages' = neg.fileNames
              /\ overallSamples' = Len(pos.fileNames) + Len(neg.fileNames)
              /\ IF Len(pos.fileNames) + Len(neg.fileNames) = 0
                 THEN /\ printed' = printed \o pos.printed \o neg.printed
                                      \o <<<<"No training sample files found, nothing to do!">>>>
                      /\ pc' = "done"
                      /\ exitStatus' = <<EXIT_SUCCESS>>
                 ELSE /\ printed' = printed \o pos.printed \o neg.printed
                      /\ pc' = "open"
                      /\ UNCHANGED exitStatus
    /\ UNCHANGED <<backend, synthVars, program, currentFile, File, extracted, prob, stages,
                   output,
                   evalVars, memVars>>

\* Mutant: the locale is left as the program found it.
OpenFeaturesFileHostLocale ==
    /\ pc = "open"
    /\ UNCHANGED locale
    /\ \E good \in BOOLEAN :
          IF good
          THEN /\ File' = [exists |-> TRUE, is_open |-> TRUE,
                           lines |-> IF writesComment(program, backend)
                                     THEN <<<<CommentText, featuresFile, endl>>>>
                                     ELSE <<>>]
               /\ pc' = "loop"
               /\ UNCHANGED <<exitStatus, printed>>
          ELSE /\ UNCHANGED File
               /\ printed' = Append(printed, <<"Error opening file", featuresFile>>)
               /\ IF program = PART_000
                  THEN pc' = "done" /\ exitStatus' = <<EXIT_FAILURE>>
                  ELSE pc' = "train" /\ UNCHANGED exitStatus
    /\ currentFile' = 0
    /\ UNCHANGED <<backend, synthVars, program, positiveTrainingImages,
                   negativeTrainingImages, overallSamples, extracted, prob, stages,
                   callVars, descriptorFile, modelFile, hog, tallies, cap, window,
                   escDelivered, memVars>>

\* setlocale (the last call selects "POSIX"), then File.open(featuresFile,
\* ios::out) and, when it is open, the comment line.
OpenFeaturesFile ==
    /\ pc = "open"
    /\ locale' = "POSIX"
    /\ \E good \in BOOLEAN :
          IF good
          THEN /\ File' = [exists |-> TRUE, is_open |-> TRUE,
                           lines |-> IF writesComment(program, backend)
                                     THEN <<<<CommentText, featuresFile, endl>>>>
                                     ELSE <<>>]
               /\ pc' = "loop"
               /\ UNCHANGED <<exitStatus, printed>>
          ELSE /\ UNCHANGED File
               /\ printed' = Append(printed, <<"Error opening file", featuresFile>>)
               /\ IF program = PART_000
                  THEN pc' = "done" /\ exitStatus' = <<EXIT_FAILURE>>
                  ELSE pc' = "train" /\ UNCHANGED exitStatus
    /\ currentFile' = 0
    /\ UNCHANGED <<backend, synthVars, program, positiveTrainingImages,
                   negativeTrainingImages, overallSamples, extracted, prob, stages,
                   callVars, descriptorFile, modelFile, hog, tallies, cap, window,
                   escDelivered, memVars>>

\* The images met in a run: the ones that yield no vector, a blank one and one
\* with a blank first cell.
SampleImages ==
    {imageData \in Images :
        \/ calculateFeaturesFromInput(imageData, <<>>) = <<>>
        \/ /\ imageData.descriptor[1] = 0
           /\ \A k \in 2..Len(imageData.descriptor) :
                  imageData.descriptor[k] = imageData.descriptor[Len(imageData.descriptor)]}

currentImageFile(cur, positives, negatives) ==
    IF cur < Len(positives) THEN positives[cur + 1] ELSE negatives[cur - Len(positives) + 1]

\* One iteration of the loop over the sample images.
WriteSample ==
    /\ pc = "loop"
    /\ currentFile < overallSamples
    /\ \E imageData \in SampleImages :
          LET featureVector == calculateFeaturesFromInput(imageData, <<>>)
          IN  /\ File' = [File EXCEPT !.lines =
                             writeSample(@, currentFile, positiveTrainingImages, featureVector)]
              /\ extracted' = Append(extracted, featureVector)
              /\ printed' = printed \o calculateFeaturesFromInputPrints(
                                currentImageFile(currentFile, positiveTrainingImages,
                                                 negativeTrainingImages), imageData)
    /\ currentFile' = currentFile + 1
    /\ UNCHANGED <<backend, synthVars, program, positiveTrainingImages,
                   negativeTrainingImages, overallSamples, exitStatus, pc, prob, stages,
                   callVars,
                   evalVars, memVars>>

\* The loop is over: File.flush(); File.close().
CloseFeaturesFile ==
    /\ pc = "loop"
    /\ currentFile >= overallSamples
    /\ File' = [File EXCEPT !.is_open = FALSE]
    /\ pc' = "train"
    /\ UNCHANGED <<backend, synthVars, program, positiveTrainingImages,
                   negativeTrainingImages, overallSamples, currentFile, extracted,
                   exitStatus, pipeVars, callVars,
                   evalVars, memVars>>

(***************************************************************************)
(* main() after the features file: the calls to the trainer.  The solver   *)
(* and the svmlight library are outside the program: a call is recorded in *)
(* stages with what is known of its outcome.                               *)
(***************************************************************************)
\* read_problem(featuresFile).  libSVM sets the locale, parses the file itself
\* and exits on an error; SVMlight hands the file name to read_documents of the
\* library, which finds a readable file or not when this run has not written it.
ReadProblem ==
    /\ pc = "train"
    /\ stages' = Append(stages, <<"read_problem">>)
    /\ IF backend = LIBSVM
       THEN LET r == read_problem(IF File.exists
                                  THEN [exists |-> TRUE, text |-> FileText(File.lines)]
                                  ELSE NoFile)
            IN  /\ locale' = "POSIX"
                /\ prob' = r.prob
                /\ printed' = printed \o r.printed
                /\ IF r.exited
                   THEN pc' = "done" /\ exitStatus' = <<EXIT_FAILURE>>
                   ELSE pc' = "fit" /\ UNCHANGED exitStatus
       ELSE /\ UNCHANGED <<prob, printed, locale>>
            /\ \E readable \in (IF File.exists THEN {TRUE} ELSE BOOLEAN) :
                  IF readable
                  THEN pc' = "fit" /\ UNCHANGED exitStatus
                  ELSE pc' = "done" /\ exitStatus' = <<EXIT_FAILURE>>
    /\ UNCHANGED <<backend, synthVars, program, positiveTrainingImages,
                   negativeTrainingImages, overallSamples, currentFile, File, extracted,
                   callVars, descriptorFile, modelFile, hog, tallies, cap, window,
                   escDelivered, memVars>>

\* The classes present in the dataset written by this run.
classesWritten(lines) == {lines[i][1] : i \in 1..Len(lines)} \cap {"+1", "-1"}

\* What the solver can make of the dataset: with one class only there is
\* nothing to separate; with both it converges or it does not.
FitOutcomes(file) ==
    IF file.exists /\ Cardinality(classesWritten(file.lines)) < 2
    THEN {"one class only"}
    ELSE {"fitted", "no convergence"}

\* train(): returns nothing, whatever the solver did; the wrapper holds the
\* model the solver returned.
TrainModel ==
    /\ pc = "fit"
    /\ \E outcome \in FitOutcomes(File) :
          stages' = Append(stages, <<"train", outcome>>)
    /\ \E f \in TrainedModels(positiveTrainingImages, extracted) :
          /\ fitted' = f
          /\ model' = WrapperModel(backend, f)
    /\ spc' = "fitted"
    /\ pc' = "save"
    /\ UNCHANGED <<backend, singleDetectorVector, singleDetectorVectorIndices, warnings,
                   thresholdReads, program, positiveTrainingImages,
                   negativeTrainingImages, overallSamples, currentFile, File, extracted,
                   exitStatus, printed, prob, callVars,
                   evalVars, memVars>>

\* saveModelToFile(svmModelFile): libSVM exits when svm_save_model fails.
SaveModelToFile ==
    /\ pc = "save"
    /\ stages' = Append(stages, <<"saveModelToFile">>)
    /\ \E saved \in (IF backend = LIBSVM THEN BOOLEAN ELSE {TRUE}) :
          IF saved
          THEN /\ modelFile' = [exists |-> TRUE]
               /\ pc' = "synthesize"
               /\ UNCHANGED <<exitStatus, printed>>
          ELSE /\ pc' = "done"
               /\ exitStatus' = <<EXIT_FAILURE>>
               /\ printed' = Append(printed, <<"Error: Could not save model to file">>)
               /\ UNCHANGED modelFile
    /\ UNCHANGED <<backend, synthVars, program, positiveTrainingImages,
                   negativeTrainingImages, overallSamples, currentFile, File, extracted,
                   prob, callVars, locale, descriptorFile, hog, tallies, cap, window,
                   escDelivered, memVars>>

\* getSingleDetectingVector(descriptorVector, descriptorVectorIndices); an
\* exception of std::vector::at is caught nowhere.
GenerateDetectingVector ==
    /\ pc = "synthesize"
    /\ stages' = Append(stages, <<"getSingleDetectingVector">>)
    /\ LET r == getSingleDetectingVector(backend, model, singleDetectorVectorIndices)
       IN  /\ singleDetectorVector' = r.vec
           /\ singleDetectorVectorIndices' = r.idx
           /\ warnings' = r.warnings
           /\ spc' = IF r.thrown THEN "aborted" ELSE "synthesized"
           /\ pc' = IF r.thrown THEN "aborted" ELSE "write vector"
    /\ UNCHANGED <<backend, fitted, model, thresholdReads, program, positiveTrainingImages,
                   negativeTrainingImages, overallSamples, currentFile, File, extracted,
                   exitStatus, printed, prob, callVars,
                   evalVars, memVars>>

\* saveDescriptorVectorToFile (main.cpp sets the locale in it); main.cpp then
\* returns, part_000 goes on to test.
SaveDescriptorVectorToFile ==
    /\ pc = "write vector"
    /\ stages' = Append(stages, <<"saveDescriptorVectorToFile">>)
    /\ locale' = IF program = MAIN_CPP THEN "C" ELSE locale
    /\ \E opens \in BOOLEAN :
          descriptorFile' = saveDescriptorVectorToFile(singleDetectorVector, descriptorFile,
                                                       opens)
    /\ IF program = MAIN_CPP
       THEN pc' = "done" /\ exitStatus' = <<EXIT_SUCCESS>>
       ELSE pc' = "test" /\ UNCHANGED exitStatus
    /\ UNCHANGED <<backend, synthVars, program, positiveTrainingImages,
                   negativeTrainingImages, overallSamples, currentFile, File, extracted,
                   printed, prob, callVars, modelFile, hog, tallies, cap, window,
                   escDelivered, memVars>>

\* part_000: getThreshold, hog.setSVMDetector, detectTrainingSetTest on the two
\* lists of the catalog.
DetectTrainingSetTest ==
    /\ pc = "test"
    /\ stages' = stages \o <<<<"getThreshold">>, <<"detectTrainingSetTest">>>>
    /\ hog' = [svmDetector |-> singleDetectorVector,
               hitThreshold |-> <<getThreshold(backend, model)>>]
    /\ \E found \in MainDetections(positiveTrainingImages, negativeTrainingImages,
                                     extracted) :
          tallies' = detectTrainingSetTest(positiveTrainingImages, negativeTrainingImages,
                                           found)
    /\ pc' = "camera"
    /\ UNCHANGED <<backend, synthVars, program, positiveTrainingImages,
                   negativeTrainingImages, overallSamples, currentFile, File, extracted,
                   exitStatus, printed, prob, callVars, locale, descriptorFile, modelFile,
                   cap, window, escDelivered, memVars>>

\* detectTrainingSetTest has returned and its counters are gone.
\* VideoCapture cap(0); main returns when the camera is not opened.
OpenCamera ==
    /\ pc = "camera"
    /\ tallies' = NoValue
    /\ \E isOpened \in BOOLEAN :
          IF isOpened
          THEN /\ cap' = "opened"
               /\ pc' = "wait key"
               /\ UNCHANGED <<printed, exitStatus>>
          ELSE /\ cap' = "closed"
               /\ printed' = Append(printed, <<"Error opening camera!">>)
               /\ pc' = "done"
               /\ exitStatus' = <<EXIT_FAILURE>>
    /\ UNCHANGED <<backend, synthVars, program, positiveTrainingImages,
                   negativeTrainingImages, overallSamples, currentFile, File, extracted,
                   prob, stages, callVars, locale, descriptorFile, modelFile, hog,
                   window, escDelivered, memVars>>

\* The ESC key is pressed; highgui receives keys in its windows only.
PressEsc ==
    /\ pc \in {"wait key", "frame"}
    /\ window = "shown"
    /\ ~escDelivered
    /\ escDelivered' = TRUE
    /\ UNCHANGED <<backend, synthVars, mainVars, pipeVars, callVars, locale, descriptorFile,
                   modelFile, hog, tallies, cap, window, memVars>>

\* while ((cvWaitKey(10) & 255) != 27): on ESC main returns EXIT_SUCCESS and
\* cap is destructed, which releases the camera.  No window is destroyed.
WaitKey ==
    /\ pc = "wait key"
    /\ IF escDelivered
       THEN /\ escDelivered' = FALSE
            /\ cap' = "released"
            /\ pc' = "done"
            /\ exitStatus' = <<EXIT_SUCCESS>>
       ELSE /\ pc' = "frame"
            /\ UNCHANGED <<escDelivered, cap, exitStatus>>
    /\ UNCHANGED <<backend, synthVars, program, positiveTrainingImages,
                   negativeTrainingImages, overallSamples, currentFile, File, extracted,
                   pipeVars, callVars, locale, descriptorFile, modelFile, hog, tallies,
                   window, memVars>>

\* cap >> testImage; detectTest; imshow.  The frame is not tested: on a frame
\* that was not read (an empty Mat) the library calls throw or do nothing, and
\* an exception is caught nowhere, so that no destructor runs.
ShowFrame ==
    /\ pc = "frame"
    /\ \E grabbed \in BOOLEAN :
          IF grabbed
          THEN /\ window' = "shown"
               /\ pc' = "wait key"
          ELSE /\ UNCHANGED window
               /\ \E thrown \in BOOLEAN :
                     pc' = IF thrown THEN "aborted" ELSE "wait key"
    /\ UNCHANGED <<backend, synthVars, program, positiveTrainingImages,
                   negativeTrainingImages, overallSamples, currentFile, File, extracted,
                   exitStatus, pipeVars, callVars, locale, descriptorFile, modelFile, hog,
                   tallies, cap, escDelivered, memVars>>

NextMain ==
    \/ ReadImageFiles
    \/ OpenFeaturesFile
    \/ WriteSample
    \/ CloseFeaturesFile
    \/ ReadProblem
    \/ TrainModel
    \/ SaveModelToFile
    \/ GenerateDetectingVector
    \/ SaveDescriptorVectorToFile
    \/ DetectTrainingSetTest
    \/ OpenCamera
    \/ PressEsc
    \/ WaitKey
    \/ ShowFrame

SpecMain == InitMain /\ [][NextMain]_vars

\* main is one thread: a call that returned is followed by the next statement.
SpecMainLive == SpecMain /\ WF_vars(WaitKey) /\ WF_vars(ShowFrame)

(***************************************************************************)
(* One call of calculateFeaturesFromInput on an image and an output vector *)
(* drawn at Init.                                                          *)
(***************************************************************************)
InitExtract ==
    /\ backend \in Backends
    /\ MainNotRunning
    /\ WrapperConstructed
    /\ NoEvaluation
    /\ libSVMConstructed
    /\ input \in [imageFilename : {posSamplesDir \o <<"1", ".", "p", "n", "g">>},
                  imageData : Images,
                  featureVector : SeqsUpTo(FeatureValues, MaxIndex)]
    /\ output = NoValue

CalculateFeaturesFromInput ==
    /\ input # NoValue
    /\ output = NoValue
    /\ output' = [featureVector |-> calculateFeaturesFromInput(input.imageData,
                                                               input.featureVector),
                  printed |-> calculateFeaturesFromInputPrints(input.imageFilename,
                                                               input.imageData)]
    /\ UNCHANGED <<backend, synthVars, mainVars, pipeVars, input,
                   evalVars, memVars>>

NextExtract == CalculateFeaturesFromInput

SpecExtract == InitExtract /\ [][NextExtract]_vars

(***************************************************************************)
(* One call of detectTrainingSetTest on two lists of files and on what     *)
(* hog.detect reports for them, drawn at Init.                             *)
(***************************************************************************)
MaxEvalFiles == 2      \* most files in a list handed to detectTrainingSetTest

EvalFiles(dirName, n) ==
    {[i \in 1..k |-> dirName \o <<DigitChars[i + 1], ".", "p", "n", "g">>] : k \in 0..n}

InitEvaluate ==
    /\ backend \in Backends
    /\ MainNotRunning
    /\ WrapperConstructed
    /\ NoEvaluation
    /\ libSVMConstructed
    /\ \E posFileNames \in EvalFiles(posSamplesDir, MaxEvalFiles),
          negFileNames \in EvalFiles(negSamplesDir, MaxEvalFiles) :
          input \in [posFileNames : {posFileNames}, negFileNames : {negFileNames},
                     found : Detections(posFileNames, negFileNames)]
    /\ output = NoValue

DetectTrainingSetTestCall ==
    /\ input # NoValue
    /\ output = NoValue
    /\ output' = detectTrainingSetTest(input.posFileNames, input.negFileNames, input.found)
    /\ UNCHANGED <<backend, synthVars, mainVars, pipeVars, input, evalVars, memVars>>

NextEvaluate == DetectTrainingSetTestCall

SpecEvaluate == InitEvaluate /\ [][NextEvaluate]_vars

(***************************************************************************)
(* The libSVM instance and the buffers of read_problem.  A pointer is       *)
(* NULL, not initialized, or holds the address of a block of heap; a block *)
(* records which buffer it was allocated for and how often it was freed.   *)
(***************************************************************************)
MaxCalls == 3          \* most calls made on the instance

NullPointer == [kind |-> "NULL", block |-> 0]

\* free(ptr)
free(m, ptr) ==
    IF ptr.kind = "NULL" THEN m
    ELSE IF ptr.kind = "uninitialized" THEN [m EXCEPT !.wildFrees = @ + 1]
    ELSE [m EXCEPT !.heap[ptr.block].frees = @ + 1]

freeMem(m) ==
    IF m.used
    THEN free(free(free(free(m, m.pointers.y), m.pointers.x), m.pointers.x_space),
              m.pointers.line)
    ELSE m

\* ptr = Malloc(type, n)
Malloc(m, buffer) ==
    [m EXCEPT !.heap = Append(@, [buffer |-> buffer, frees |-> 0]),
              !.pointers[buffer] = [kind |-> "block", block |-> Len(m.heap) + 1]]

\* The allocations of read_problem: line, then prob.y, prob.x and x_space.
readProblemBuffers(m) == Malloc(Malloc(Malloc(Malloc(m, "line"), "y"), "x"), "x_space")

Memory ==
    [used |-> trainingDataStructsUsed, pointers |-> pointers, heap |-> heap,
     wildFrees |-> wildFrees]

SetMemory(m) ==
    /\ trainingDataStructsUsed' = m.used
    /\ pointers' = m.pointers
    /\ heap' = m.heap
    /\ wildFrees' = m.wildFrees

InitLifecycle ==
    /\ backend = LIBSVM
    /\ MainNotRunning
    /\ WrapperConstructed
    /\ NoCall
    /\ NoEvaluation
    /\ libSVMConstructed

\* read_problem(filename): setlocale; exit(1) when the file does not open
\* (nothing is allocated yet) or is malformed (all is allocated, the flag not yet set);
\* exit runs the destructor of the instance.
LibsvmReadProblem ==
    /\ alive
    /\ Len(stages) < MaxCalls
    /\ \E outcome \in {"read", "cannot open", "malformed"} :
          /\ stages' = Append(stages, <<"read_problem", outcome>>)
          /\ CASE outcome = "read" ->
                    /\ SetMemory([readProblemBuffers(Memory) EXCEPT !.used = TRUE])
                    /\ UNCHANGED alive
              [] outcome = "cannot open" ->
                    /\ SetMemory(freeMem(Memory))
                    /\ alive' = FALSE
              [] outcome = "malformed" ->
                    /\ SetMemory(freeMem(readProblemBuffers(Memory)))
                    /\ alive' = FALSE
    /\ locale' = "POSIX"
    /\ UNCHANGED <<backend, synthVars, mainVars, printed, prob, callVars, descriptorFile,
                   modelFile, hog, tallies, cap, window, escDelivered>>

\* train(): sets the flag, whether or not read_problem was called.
LibsvmTrain ==
    /\ alive
    /\ Len(stages) < MaxCalls
    /\ stages' = Append(stages, <<"train">>)
    /\ SetMemory([Memory EXCEPT !.used = TRUE])
    /\ UNCHANGED <<backend, synthVars, mainVars, printed, prob, callVars, evalVars, alive>>

\* loadModelFromFile(): freeMem first, setlocale; exit(EXIT_FAILURE) when the model does
\* not load, which runs the destructor.
LibsvmLoadModelFromFile ==
    /\ alive
    /\ Len(stages) < MaxCalls
    /\ \E loaded \in BOOLEAN :
          /\ stages' = Append(stages, <<"loadModelFromFile", loaded>>)
          /\ IF loaded
             THEN /\ SetMemory(freeMem(Memory))
                  /\ UNCHANGED alive
             ELSE /\ SetMemory(freeMem(freeMem(Memory)))
                  /\ alive' = FALSE
    /\ locale' = "POSIX"
    /\ UNCHANGED <<backend, synthVars, mainVars, printed, prob, callVars, descriptorFile,
                   modelFile, hog, tallies, cap, window, escDelivered>>

\* freeMem(), called by the user of the wrapper.
FreeMem ==
    /\ alive
    /\ Len(stages) < MaxCalls
    /\ stages' = Append(stages, <<"freeMem">>)
    /\ SetMemory(freeMem(Memory))
    /\ UNCHANGED <<backend, synthVars, mainVars, printed, prob, callVars, evalVars, alive>>

\* ~libSVM(), when the program ends.
Destructor ==
    /\ alive
    /\ stages' = Append(stages, <<"~libSVM">>)
    /\ SetMemory(freeMem(Memory))
    /\ alive' = FALSE
    /\ UNCHANGED <<backend, synthVars, mainVars, printed, prob, callVars, evalVars>>

NextLifecycle ==
    \/ LibsvmReadProblem
    \/ LibsvmTrain
    \/ LibsvmLoadModelFromFile
    \/ FreeMem
    \/ Destructor

SpecLifecycle == InitLifecycle /\ [][NextLifecycle]_vars

(***************************************************************************)
(* What the synthesis is to compute: the dense vector of length D whose    *)
(* position k-1 holds the sum of w_sv * x_k over all recorded pairs.       *)
(***************************************************************************)
PairContribution(sv, k) ==
    LET hits == {i \in 1..Len(sv.pairs) : sv.pairs[i].index = k}
    IN  IF hits = {} THEN 0 ELSE sv.coef * sv.pairs[CHOOSE i \in hits : TRUE].value

RECURSIVE WeightedSumUpTo(_, _, _)
WeightedSumUpTo(f, k, n) ==
    IF n = 0 THEN 0 ELSE WeightedSumUpTo(f, k, n - 1) + PairContribution(f.sv[n], k)

WeightedSum(f, k) == WeightedSumUpTo(f, k, Len(f.sv))

Synthesized == spc = "synthesized"
SynthesisRan == spc \in {"synthesized", "aborted"}

IsSparse(sv) == Len(sv.pairs) < FeatureLen
InRange(f) == \A i \in 1..Len(f.sv) : \A j \in 1..Len(f.sv[i].pairs) :
                  f.sv[i].pairs[j].index <= f.totwords
Permuted(f, p) == [f EXCEPT !.sv = [i \in 1..Len(f.sv) |-> f.sv[p[i]]]]

\* C1: after synthesis every position k-1 of the detector vector holds the sum,
\* over all support vectors and all their recorded (k, x_k) pairs, of w_sv * x_k.
C1_PositionsHoldWeightedSums ==
    Synthesized =>
        \A k \in 1..Len(singleDetectorVector) :
            singleDetectorVector[k] = WeightedSum(fitted, k)

\* C2: after synthesis the detector vector has length exactly D, whatever the
\* number of support vectors and the span of the first one.
C2_LengthIsD ==
    Synthesized => Len(singleDetectorVector) = fitted.totwords

\* C3: a support vector that records fewer than D pairs (all within 1..D)
\* contributes at the positions it records and zero elsewhere, and synthesis
\* completes.
C3_SparseSupportVector ==
    (SynthesisRan /\ InRange(fitted) /\ \E i \in 1..Len(fitted.sv) : IsSparse(fitted.sv[i]))
        => /\ Synthesized
           /\ Len(singleDetectorVector) = fitted.totwords
           /\ \A k \in 1..fitted.totwords :
                  singleDetectorVector[k] = WeightedSum(fitted, k)

\* C4: a component beyond the dense length D is reported and skipped, nothing
\* outside positions 0..D-1 is written, and synthesis goes on to the end.
C4_OversizedComponentSkipped ==
    (SynthesisRan /\ ~InRange(fitted))
        => /\ Synthesized
           /\ warnings > 0
           /\ Len(singleDetectorVector) <= fitted.totwords

\* C5: every permutation of the support vectors (with their weights) gives the
\* same detector vector.
C5_OrderIndependent ==
    Synthesized =>
        \A p \in Permutations(1..Len(fitted.sv)) :
            LET r == getSingleDetectingVector(backend,
                         WrapperModel(backend, Permuted(fitted, p)), <<>>)
            IN  ~r.thrown /\ r.vec = singleDetectorVector

\* C6: with a kernel that is not linear the synthesis produces no detector
\* vector.
C6_KernelChecked ==
    (spc # "constructed" /\ fitted.kernel_type # LINEAR) => ~Synthesized

\* C7: synthesis leaves the model (support vectors, weights, bias) as it was,
\* and getThreshold returns the model's bias, the same before and after.
C7_SynthesisReadOnly ==
    /\ [][(spc = "fitted" /\ spc' # "fitted") => model' = model]_vars
    /\ [](\A when \in {"before", "after"} :
             thresholdReads[when] # <<>> =>
                 thresholdReads[when] = <<getThreshold(backend, model)>>)
    /\ []((thresholdReads.before # <<>> /\ thresholdReads.after # <<>>)
             => thresholdReads.before = thresholdReads.after)

C7_Witness ==
    /\ Synthesized
    /\ Len(fitted.sv) = MaxSV
    /\ thresholdReads.before # <<>>
    /\ thresholdReads.after # <<>>

(***************************************************************************)
(* The features file against the samples processed.                        *)
(***************************************************************************)
IsComment(line) == line[1] = CommentText
ExampleLines == SelectSeq(File.lines, LAMBDA line : ~IsComment(line))

\* The samples (1-based, positives first) whose feature vector was not empty.
RECURSIVE RetainedUpTo(_)
RetainedUpTo(n) ==
    IF n = 0 THEN <<>>
    ELSE IF extracted[n] # <<>> THEN Append(RetainedUpTo(n - 1), n)
    ELSE RetainedUpTo(n - 1)

Retained == RetainedUpTo(Len(extracted))

IsPositive(sample) == sample <= Len(positiveTrainingImages)

\* C8: every sample with a non-empty vector of length D has exactly one line:
\* the label, then D tokens " i:v" with i = 1..D in order and v the feature at
\* position i-1, then the line end.
C8_LineFormat ==
    /\ Len(ExampleLines) = Len(Retained)
    /\ \A j \in 1..Len(ExampleLines) :
          LET line == ExampleLines[j]
              featureVector == extracted[Retained[j]]
              D == Len(featureVector)
          IN  /\ D = FeatureLen
              /\ Len(line) = 4 * D + 2
              /\ line[1] \in {"+1", "-1"}
              /\ \A i \in 1..D :
                    /\ line[4 * i - 2] = " "
                    /\ line[4 * i - 1] = ToString(i)
                    /\ line[4 * i] = ":"
                    /\ line[4 * i + 1] = FormatFloat(featureVector[i])
              /\ line[4 * D + 2] = endl

C8_Witness ==
    /\ pc = "train"
    /\ Len(ExampleLines) = MaxPos + MaxNeg
    /\ \E j \in 1..Len(ExampleLines) :
          extracted[Retained[j]][1] # extracted[Retained[j]][FeatureLen]

\* C9: a line written for a sample of the positive list carries +1, a line
\* written for a sample of the negative list carries -1.
C9_LabelEncoding ==
    \A j \in 1..Len(ExampleLines) :
        /\ j <= Len(Retained)
        /\ ExampleLines[j][1] = IF IsPositive(Retained[j]) THEN "+1" ELSE "-1"

C9_Witness ==
    /\ pc = "train"
    /\ Len(positiveTrainingImages) = MaxPos
    /\ Len(extracted) = MaxPos + MaxNeg
    /\ extracted[1] = <<>>
    /\ \E j, k \in 1..Len(ExampleLines) : ExampleLines[j][1] = "+1" /\ ExampleLines[k][1] = "-1"

\* C10: a sample with an EMPTY vector does not end the batch: samples are
\* attempted one after the other up to the last, an EMPTY vector adds no line,
\* and the example lines number the samples with a non-empty vector.
NonEmptyCount == Cardinality({i \in 1..Len(extracted) : extracted[i] # <<>>})

C10_EmptySkippedBatchGoesOn ==
    /\ pc = "loop" => Len(extracted) = currentFile
    /\ (pc \notin {"start", "open", "loop"} /\ File.exists) => Len(extracted) = overallSamples
    /\ Len(ExampleLines) = NonEmptyCount

C10_Witness ==
    /\ pc = "train"
    /\ Len(extracted) = MaxPos + MaxNeg
    /\ extracted[1] = <<>>
    /\ extracted[Len(extracted)] # <<>>
    /\ Len(ExampleLines) < Len(extracted)

(***************************************************************************)
(* The features file read back by libSVM::read_problem.                    *)
(***************************************************************************)
ReadProblemReturned == prob # NoValue /\ ~(pc = "done" /\ Len(stages) = 1)

\* The nodes read_problem is to deliver for a feature vector as it was written.
WrittenNodes(featureVector) ==
    [i \in 1..Len(featureVector) |->
        [index |-> i, value |-> RoundSignificant(featureVector[i])]]
        \o <<[index |-> NodeTerminator, value |-> 0]>>

\* C11: read_problem on the file the writer produced returns normally with
\* exactly one example per retained sample, in the order written, each with the
\* signed label of its class and the (index, value) pairs that were written.
C11_WriteThenReadRoundTrip ==
    (prob # NoValue) =>
        /\ ReadProblemReturned
        /\ prob.l = Len(Retained)
        /\ Len(prob.y) = prob.l
        /\ Len(prob.x) = prob.l
        /\ \A j \in 1..Len(Retained) :
              /\ prob.y[j] = IF IsPositive(Retained[j]) THEN 1 ELSE 0 - 1
              /\ prob.x[j] = WrittenNodes(extracted[Retained[j]])

C11_Witness ==
    /\ ReadProblemReturned
    /\ Len(extracted) = MaxPos + MaxNeg
    /\ extracted[1] = <<>>
    /\ prob.l = MaxPos + MaxNeg - 1
    /\ \E j, k \in 1..prob.l : prob.y[j] = 1 /\ prob.y[k] = 0 - 1
    /\ \E j \in 1..prob.l : prob.x[j][FeatureLen].value > 0

(***************************************************************************)
(* read_problem on files of every kind.                                    *)
(***************************************************************************)
Kinds(file) == {file[i].kind : i \in 1..Len(file)}
FirstNotExample(file) == Least({i \in 1..Len(file) : file[i].kind # "example"})

\* C12: on a file without comment lines, reading stops at the first line that
\* has no label, a malformed label, index or value token, or an index that is
\* not above the previous one, with an error naming that line (1-based); a file
\* of examples only is read to the end.
C12_ReaderFailsFast ==
    (output # NoValue /\ "comment" \notin Kinds(input)) =>
        IF Kinds(input) \subseteq {"example"}
        THEN ~output.exited
        ELSE /\ output.exited
             /\ output.line_num = FirstNotExample(input)
             /\ <<"Wrong input format at line", FirstNotExample(input)>>
                    \in Range(output.printed)

\* C13: a file that starts with the comment line, followed by examples, is
\* read without a parse error and yields what the file without that line
\* yields.
C13_LeadingCommentIgnored ==
    (/\ output # NoValue
     /\ Len(input) > 0
     /\ input[1].kind = "comment"
     /\ Kinds(Tail(input)) \subseteq {"example"})
        => /\ ~output.exited
           /\ output.prob = read_problem([exists |-> TRUE,
                                text |-> [i \in 1..(Len(input) - 1) |-> input[i + 1].text]]).prob

(***************************************************************************)
(* getFilesInDirectory against the directory it was given.                 *)
(***************************************************************************)
HasDot(name) == "." \in Range(name)

\* The text after the last '.' of a name that has one.
ExtensionOf(name) ==
    LET last == CHOOSE i \in 1..Len(name) :
                    name[i] = "." /\ \A j \in (i + 1)..Len(name) : name[j] # "."
    IN  SubSeq(name, last + 1, Len(name))

Accepted(name, extensions) ==
    HasDot(name) /\ toLowerCase(ExtensionOf(name)) \in Range(extensions)

IsReturned(ep) == (input.dirName \o ep.d_name) \in Range(output.fileNames)

\* C14: a regular file of the directory is returned exactly when its name has
\* a '.' and the text after the last '.' is, in lower case, an accepted
\* extension; a name without '.' is never returned.
C14_ExtensionFilter ==
    (output # NoValue /\ input.dp.opens) =>
        \A ep \in Range(input.dp.entries) :
            ep.d_type = "DT_REG" => (IsReturned(ep) <=> Accepted(ep.d_name, input.extensions))

\* C15: no subdirectory and no entry whose name starts with '.' is returned.
C15_DirectoriesAndDotFilesSkipped ==
    (output # NoValue /\ input.dp.opens) =>
        \A ep \in Range(input.dp.entries) :
            (ep.d_type = "DT_DIR" \/ ep.d_name[1] = ".") => ~IsReturned(ep)

(***************************************************************************)
(* The run against its sample directories.                                 *)
(***************************************************************************)
Reported(message) == message \in Range(printed)

\* C16: a sample directory that does not open is reported, adds no file (its
\* list stays empty) and does not end the run: the other directory's files
\* are all there, and with at least one of them the run goes on to the
\* features file.
C16_UnopenedDirectoryContinues ==
    /\ [](pc # "start" =>
            /\ ~input.pos.opens =>
                  /\ positiveTrainingImages = <<>>
                  /\ Reported(<<"Error opening directory", posSamplesDir>>)
            /\ ~input.neg.opens =>
                  /\ negativeTrainingImages = <<>>
                  /\ Reported(<<"Error opening directory", negSamplesDir>>)
            /\ input.pos.opens => Len(positiveTrainingImages) = Len(input.pos.entries)
            /\ input.neg.opens => Len(negativeTrainingImages) = Len(input.neg.entries)
            /\ overallSamples = Len(positiveTrainingImages) + Len(negativeTrainingImages))
    /\ [][(pc = "start" /\ pc' # "start" /\ overallSamples' > 0) => pc' = "open"]_vars

C16_Witness ==
    /\ pc = "train"
    /\ File.exists
    /\ ~input.pos.opens
    /\ Len(negativeTrainingImages) = MaxNeg
    /\ Len(ExampleLines) = MaxNeg

\* C17: with no sample at all the run ends with EXIT_SUCCESS and the "nothing
\* to do" message; the features file is not created or written, and no call
\* to the trainer, the synthesis or the test is made.
C17_ZeroSampleRun ==
    (pc # "start" /\ overallSamples = 0) =>
        /\ pc = "done"
        /\ exitStatus = <<EXIT_SUCCESS>>
        /\ Reported(<<"No training sample files found, nothing to do!">>)
        /\ ~File.exists
        /\ File.lines = <<>>
        /\ stages = <<>>
        /\ prob = NoValue

C17_Witness ==
    /\ pc = "done"
    /\ overallSamples = 0
    /\ input.pos.opens
    /\ input.neg.opens

(***************************************************************************)
(* calculateFeaturesFromInput against the image it was given.              *)
(***************************************************************************)
Mismatch(imageData) ==
    ~imageData.empty /\ (imageData.cols # WinWidth \/ imageData.rows # WinHeight)

\* C18: for an image that does not decode or is not of the window size the
\* vector returned is empty, whatever the vector passed in held; on a mismatch
\* a message with the image's and the window's dimensions is printed; the
\* vector returned is empty or of length D.
C18_ExtractEmptyOnBadImage ==
    (output # NoValue) =>
        /\ (input.imageData.empty \/ Mismatch(input.imageData)) => output.featureVector = <<>>
        /\ Mismatch(input.imageData) =>
              \E m \in Range(output.printed) :
                  /\ Len(m) = 6
                  /\ <<m[3], m[4]>> = <<input.imageData.cols, input.imageData.rows>>
                  /\ <<m[5], m[6]>> = <<WinWidth, WinHeight>>
        /\ Len(output.featureVector) \in {0, FeatureLen}

C18_Witness ==
    /\ output # NoValue
    /\ Mismatch(input.imageData)
    /\ Len(input.featureVector) = FeatureLen
    /\ Len(input.imageData.descriptor) > FeatureLen

(***************************************************************************)
(* The run after a failure.                                                *)
(***************************************************************************)
\* C19: when the features file does not open for writing the run is over with
\* a failure status, and no call to read_problem, train, saveModelToFile,
\* getSingleDetectingVector or saveDescriptorVectorToFile is made.
C19_OpenFailureAborts ==
    Reported(<<"Error opening file", featuresFile>>) =>
        /\ pc = "done"
        /\ exitStatus = <<EXIT_FAILURE>>
        /\ stages = <<>>

\* C20: a fit on the dataset written by the run that failed (no convergence,
\* one class only) ends the run with a failure status: train is the last call
\* made, no model is saved, no vector synthesized or written.
C20_FitFailureReported ==
    \A i \in 1..Len(stages) :
        (File.exists /\ stages[i][1] = "train" /\ stages[i][2] # "fitted") =>
            /\ i = Len(stages)
            /\ pc = "done"
            /\ exitStatus = <<EXIT_FAILURE>>

(***************************************************************************)
(* detectTrainingSetTest against the detections it was given.              *)
(***************************************************************************)
RECURSIVE SumSeq(_)
SumSeq(q) == IF q = <<>> THEN 0 ELSE Head(q) + SumSeq(Tail(q))

PosHits == [i \in 1..Len(input.posFileNames) |-> input.found[input.posFileNames[i]]]
NegHits == [i \in 1..Len(input.negFileNames) |-> input.found[input.negFileNames[i]]]

\* C21: a positive image with h >= 1 hits adds 1 to truePositives and h-1 to
\* falseNegatives, one with no hit adds 1 to falseNegatives; a negative image
\* with h >= 1 hits adds h to falsePositives, one with no hit adds 1 to
\* trueNegatives.  Two positives with one hit each and two negatives with none
\* give 2, 2, 0, 0.
C21_EvaluatorTallies ==
    output # NoValue =>
        /\ output.truePositives =
               SumSeq([i \in DOMAIN PosHits |-> IF PosHits[i] >= 1 THEN 1 ELSE 0])
        /\ output.falseNegatives =
               SumSeq([i \in DOMAIN PosHits |-> IF PosHits[i] >= 1 THEN PosHits[i] - 1 ELSE 1])
        /\ output.falsePositives =
               SumSeq([i \in DOMAIN NegHits |-> IF NegHits[i] >= 1 THEN NegHits[i] ELSE 0])
        /\ output.trueNegatives =
               SumSeq([i \in DOMAIN NegHits |-> IF NegHits[i] >= 1 THEN 0 ELSE 1])
        /\ (PosHits = <<1, 1>> /\ NegHits = <<0, 0>>) =>
               /\ output.truePositives = 2
               /\ output.trueNegatives = 2
               /\ output.falsePositives = 0
               /\ output.falseNegatives = 0

C21_Witness ==
    /\ output # NoValue
    /\ PosHits = <<1, 1>>
    /\ NegHits = <<0, 0>>
    /\ output.truePositives = 2
    /\ output.trueNegatives = 2

(***************************************************************************)
(* The stages of main.                                                     *)
(***************************************************************************)
Called(name) == {i \in 1..Len(stages) : stages[i][1] = name}

\* C22: when read_problem is called the features file has been written, flushed
\* and closed by the run; train is called at most once, after read_problem;
\* getSingleDetectingVector is called only after read_problem and train, and
\* exactly one call of train precedes it.
C22_StageOrdering ==
    /\ Called("read_problem") # {} => (File.exists /\ ~File.is_open)
    /\ Cardinality(Called("train")) <= 1
    /\ \A k \in Called("train") : \E j \in Called("read_problem") : j < k
    /\ \A i \in Called("getSingleDetectingVector") :
          /\ Cardinality(Called("train")) = 1
          /\ \E j \in Called("read_problem"), k \in Called("train") : j < k /\ k < i

\* C23: once ESC is delivered the loop is left and the run is over; and when
\* the run is over after the camera was tried (loop left on ESC, camera not
\* opened, frame not read), the camera is not held and the window not shown.
C23_LiveLoopExitsAndReleases ==
    /\ escDelivered ~> (pc \in {"done", "aborted"})
    /\ []((pc \in {"done", "aborted"} /\ cap # "not constructed") =>
              (cap # "opened" /\ window # "shown"))

\* C24: whenever the features file is written or a call that reads or writes
\* numbers in a file has been made (read_problem, saveModelToFile,
\* saveDescriptorVectorToFile), the locale is "C" or "POSIX"; once it is, it
\* stays so.
PinnedLocales == {"C", "POSIX"}

C24_LocalePinned ==
    /\ []((File.exists \/ stages # <<>>) => locale \in PinnedLocales)
    /\ [][(locale \in PinnedLocales) => (locale' \in PinnedLocales)]_vars

C24_Witness ==
    /\ pc = "done"
    /\ exitStatus = <<EXIT_SUCCESS>>
    /\ program = MAIN_CPP
    /\ File.exists
    /\ Len(ExampleLines) > 0
    /\ descriptorFile.exists
    /\ Called("read_problem") # {}
    /\ Called("saveModelToFile") # {}
    /\ locale = "C"

ExpectedLine(sample) ==
    <<IF IsPositive(sample) THEN "+1" ELSE "-1">>
        \o writeFeatures(extracted[sample], 0) \o <<endl>>

C26_LineOrderDeterministic ==
    /\ [](ExampleLines = [j \in 1..Len(Retained) |-> ExpectedLine(Retained[j])])
    /\ [][\/ File.lines' = File.lines
          \/ /\ Len(File.lines') = Len(File.lines) + 1
             /\ SubSeq(File.lines', 1, Len(File.lines)) = File.lines]_vars

C26_Witness ==
    /\ pc = "train"
    /\ File.exists
    /\ Len(extracted) = MaxPos + MaxNeg
    /\ extracted[1] # <<>>
    /\ extracted[2] # <<>>
    /\ extracted[1] # extracted[2]
    /\ extracted[Len(extracted)] # <<>>

\* C27: when detectTrainingSetTest returns, every file of the two lists of the
\* catalog was handed to hog.detect once, in order, also the files that gave no
\* feature vector; truePositives <= P, trueNegatives <= N, truePositives + the
\* positives without a hit = P, trueNegatives + the negatives with a hit = N,
\* and the four counters sum to at least P + N, to P + N exactly when no image
\* has more than one hit.
C27_TallyInvariants ==
    tallies # NoValue =>
        LET P == Len(positiveTrainingImages)
            N == Len(negativeTrainingImages)
            d == tallies.detected
            sum == tallies.truePositives + tallies.trueNegatives
                       + tallies.falsePositives + tallies.falseNegatives
        IN  /\ [i \in 1..Len(d) |-> d[i][1]] = positiveTrainingImages \o negativeTrainingImages
            /\ tallies.truePositives <= P
            /\ tallies.trueNegatives <= N
            /\ tallies.truePositives + Cardinality({i \in 1..P : d[i][2] = 0}) = P
            /\ tallies.trueNegatives + Cardinality({i \in (P + 1)..(P + N) : d[i][2] >= 1}) = N
            /\ sum >= P + N
            /\ (sum = P + N) <=> (\A i \in 1..Len(d) : d[i][2] <= 1)

C27_Witness ==
    /\ tallies # NoValue
    /\ Len(tallies.detected) = MaxPos + MaxNeg
    /\ extracted[1] = <<>>
    /\ tallies.detected[1][2] > 1
    /\ tallies.detected[2][2] = 0
    /\ tallies.detected[MaxPos + MaxNeg][2] > 1

\* C28: when the evaluation has started (detectTrainingSetTest, the camera),
\* saveDescriptorVectorToFile was called and the descriptor vector file and the
\* model file are written; the detector holds the synthesized vector and the
\* hit threshold is what getThreshold returns.
EvaluationStarted == Called("detectTrainingSetTest") # {} \/ cap # "not constructed"

C28_VectorPersistedBeforeEvaluation ==
    EvaluationStarted =>
        /\ Called("saveDescriptorVectorToFile") # {}
        /\ descriptorFile.exists
        /\ modelFile.exists
        /\ hog.svmDetector = singleDetectorVector
        /\ hog.hitThreshold = <<getThreshold(backend, model)>>

\* C29: no block allocated by read_problem is freed more than once, and no
\* pointer that read_problem has not set is handed to free.
C29_BuffersFreedAtMostOnce ==
    /\ \A b \in 1..Len(heap) : heap[b].frees <= 1
    /\ wildFrees = 0

\* C30: read_problem and train are called on a features file written by the
\* run only when it holds at least one example line; a run whose samples all
\* gave an empty vector makes no call to the trainer.
C30_TrainerNeedsExamples ==
    (File.exists /\ (Called("read_problem") # {} \/ Called("train") # {})) =>
        Len(ExampleLines) > 0

====
